---- MODULE Spec2Model ----
(***************************************************************************)
(* A model of the TEES/EVEX XML converter: teesxml.py (object model,       *)
(* identifier allocation, normalization resolver, head finding) and        *)
(* converttees.py (stream driver, annotation writer, output sinks).        *)
(*                                                                         *)
(* Python strings are sequences of tokens: an attribute name such as       *)
(* norm_cui_conf is <<"norm_", "cui", "_conf">>, the value CHEBI:123 is    *)
(* <<"CHEBI", ":", "123">>, an offset 0-4 is <<"0", "-", "4">>.  A token   *)
(* is an indivisible piece of text, so two strings are equal exactly when  *)
(* their token sequences are.  None is the empty sequence where the value  *)
(* is otherwise a non-empty string.                                        *)
(***************************************************************************)
EXTENDS Integers, Sequences, FiniteSets, TLC

VARIABLES
    \* --- Document.from_xml / Document.assign_uids ---
    element,        \* the <document> element handed to Document.from_xml
    options,        \* the parsed command-line options
    dpc,            \* "start", "built" (a Document exists), "failed"
    document,       \* the Document object (meaningful when dpc = "built")
    raised,         \* the exception class that left from_xml ("none" if none)
    cache,          \* _generate_unique.cache['MISSING.'], process-wide
    synthesized,    \* every placeholder minted so far in the process, in order
    before,         \* the Document as it was before the latest assign_uids call
    passes,         \* number of assign_uids passes run on the current Document
    \* --- Entity.get_normalization ---
    normElement,    \* the <evex_entity> element given to get_normalization
    normResult,     \* its return value (norm_curie, norm_conf)
    normDone,       \* TRUE once get_normalization has returned
    \* --- Sentence.find_head ---
    headTokens,     \* Sentence.tokens
    headSpan,       \* the (start, end) argument
    headResult,     \* [exc, val]: the returned Token or the exception raised
    headDone,       \* TRUE once find_head has been called
    \* --- process_stream ---
    stream,         \* the (event, element) pairs of the input, in order
    pos,            \* number of pairs already consumed
    success,        \* process_stream's success counter
    errorCount,     \* process_stream's error counter
    spc,            \* "running", "returned", "raised"
    raisedIn,       \* where an escaping exception came from
    attempted,      \* number of Document.from_xml calls made
    \* --- FilesystemWriter / SQLiteWriter ---
    writer,         \* the writer object and its backing store
    f,              \* the stream object yielded to the current scope
    wpc,            \* "idle", "body" (inside a with-block), "left"
    scopeKey,       \* the path the current scope was opened on
    written,        \* what the body of the current scope has written, in order
    scopeExit,      \* how the latest scope was left: "none", "normal", "exception"
    nscopes,        \* number of scopes opened so far
    \* --- Span.__init__ on one offset string ---
    offsetArg,      \* the offset string given to Span.__init__
    offsetResult,   \* [exc, start, end]: the span fields or the exception
    offsetDone,     \* TRUE once Span.__init__ has run
    \* --- Entity.to_ann_lines ---
    entityLines     \* per entity of the Document, [entity, lines]

docVars == <<element, options, dpc, document, raised, cache, synthesized,
             before, passes>>
normVars == <<normElement, normResult, normDone>>
headVars == <<headTokens, headSpan, headResult, headDone>>
streamVars == <<stream, pos, success, errorCount, spc, raisedIn, attempted>>
sinkVars == <<writer, f, wpc, scopeKey, written, scopeExit, nscopes>>
offsetVars == <<offsetArg, offsetResult, offsetDone>>
linesVars == <<entityLines>>
vars == <<docVars, normVars, headVars, streamVars, sinkVars, offsetVars, linesVars>>

(***************************************************************************)
(* Bounds of the model.                                                    *)
(***************************************************************************)
MaxSize == 3        \* size of a <document>: its sentences plus their elements
MaxAllocSize == 6   \* the same, for the well-formed documents of SpecAlloc
MaxPasses == 2      \* assign_uids passes per document
MaxNormAttrs == 3   \* norm_* attributes on an <evex_entity>
MaxHeadTokens == 3  \* tokens of the sentence given to find_head
MaxPrior == 1       \* placeholders the process minted before this document
MaxDocs == 2        \* documents per stream
MaxScopes == 2      \* with-blocks opened on one writer
MaxWrites == 2      \* write calls in the body of one with-block
MaxOffsetLen == 5   \* tokens of an offset string given to Span.__init__

(***************************************************************************)
(* Strings.                                                                *)
(***************************************************************************)
None == <<>>

Str(t) == <<t>>

StartsWith(s, p) == Len(s) >= Len(p) /\ SubSeq(s, 1, Len(p)) = p

EndsWith(s, p) == Len(s) >= Len(p) /\ SubSeq(s, Len(s) - Len(p) + 1, Len(s)) = p

\* s[a:b] for 0 <= a, 0 <= b (Python clamps both ends to the length)
Slice(s, a, b) ==
    LET hi == IF b < Len(s) THEN b ELSE Len(s)
    IN  IF a >= hi THEN <<>> ELSE SubSeq(s, a + 1, hi)

Range(s) == { s[i] : i \in DOMAIN s }

\* The(S) is the element of the singleton S.  The({ e(r) : r \in {v} }) is
\* "LET r == v IN e(r)" with v evaluated once.
The(S) == CHOOSE x \in S : TRUE

\* Python renders the integer n in decimal; the model keeps the integer.
Format(prefix, n) == <<prefix, n>>

(***************************************************************************)
(* XML elements: [tag, attrib, children].  attrib is a function from       *)
(* attribute names to values, children the child elements in source order. *)
(***************************************************************************)
Elem(tag, attrib, children) == [tag |-> tag, attrib |-> attrib, children |-> children]

\* element.findall(tag): the direct children with that tag, in order
FindAll(el, tag) == SelectSeq(el.children, LAMBDA c : c.tag = tag)

\* for a in elems: for b in a.findall(tag): ... -- the b's in visiting order
RECURSIVE Descend(_, _)
Descend(elems, tag) ==
    IF elems = <<>> THEN <<>>
    ELSE FindAll(Head(elems), tag) \o Descend(Tail(elems), tag)

Has(el, key) == key \in DOMAIN el.attrib

(***************************************************************************)
(* Results of calls.  exc is the exception class that escaped ("none" if   *)
(* the call returned), val the returned value, g the process-wide state    *)
(* the call leaves behind: g.cache is _generate_unique.cache['MISSING.'],  *)
(* g.log the placeholders minted so far (a history of the return values).  *)
(***************************************************************************)
Return(v, g) == [exc |-> "none", val |-> v, g |-> g]

Raise(e, g) == [exc |-> e, val |-> None, g |-> g]

NORM_ATTR_PREFIX == Str("norm_")

CONF_ATTR_SUFFIX == Str("_conf")

\* a _generate_unique that reads the counter without advancing it
generate_unique_reuse(prefix, g) ==
    Return(Format(prefix, g.cache),
           [cache |-> g.cache, log |-> Append(g.log, Format(prefix, g.cache))])

generate_unique(prefix, g) ==
    Return(Format(prefix, g.cache + 1),
           [cache |-> g.cache + 1,
            log |-> Append(g.log, Format(prefix, g.cache + 1))])

get_attrib(el, key, opts, g) ==
    IF Has(el, key) THEN Return(el.attrib[key], g)
    ELSE IF ~opts.recover THEN Raise("KeyError", g)
    ELSE generate_unique("MISSING.", g)

get_norm_curie(norm_type, norm_id) ==
    IF norm_type = Str("ncbitax_id") THEN <<"NCBITaxon", ":">> \o norm_id
    ELSE IF norm_type = Str("entrezgene_id") THEN <<"ncbigene", ":">> \o norm_id
    ELSE IF norm_type = Str("cellline_acc") THEN <<"cellosaurus", ":">> \o norm_id
    ELSE IF norm_type = Str("cui") /\ StartsWith(norm_id, <<"CHEBI", ":">>)
        THEN norm_id
    ELSE IF norm_type = Str("cui") THEN <<"mesh", ":">> \o norm_id
    ELSE norm_type \o Str(":") \o norm_id

(***************************************************************************)
(* Entity.get_normalization.  order is the order in which Python iterates  *)
(* set(norms.keys()) | set(confs.keys()): any enumeration of that set.     *)
(***************************************************************************)
\* the attribute names carrying the norm_ prefix, with the prefix removed
NormSuffixes(el) ==
    { SubSeq(k, Len(NORM_ATTR_PREFIX) + 1, Len(k)) :
        k \in { a \in DOMAIN el.attrib : StartsWith(a, NORM_ATTR_PREFIX) } }

norms(el) ==
    [ k \in { a \in NormSuffixes(el) : ~EndsWith(a, CONF_ATTR_SUFFIX) } |->
        el.attrib[NORM_ATTR_PREFIX \o k] ]

confs(el) ==
    [ k \in { SubSeq(a, 1, Len(a) - Len(CONF_ATTR_SUFFIX)) :
                a \in { b \in NormSuffixes(el) : EndsWith(b, CONF_ATTR_SUFFIX) } } |->
        el.attrib[NORM_ATTR_PREFIX \o k \o CONF_ATTR_SUFFIX] ]

NormKeySet(el) == DOMAIN norms(el) \cup DOMAIN confs(el)

\* every order in which a set can be iterated
SetIterOrders(S) ==
    { o \in [1..Cardinality(S) -> S] : \A i, j \in DOMAIN o : i # j => o[i] # o[j] }

IsPaired(el, k) == k \in DOMAIN confs(el) /\ k \in DOMAIN norms(el)

IsEmptySentinel(el, k) ==
    \/ k = Str("entrezgene_id") /\ norms(el)[k] = Str("0")
    \/ k = Str("cui") /\ norms(el)[k] = Str("NA")

\* a pairing that does not treat the empty sentinels as empty
norm_confs_keep_sentinel(el, order) ==
    SelectSeq(order, LAMBDA k : IsPaired(el, k))

norm_confs(el, order) ==
    SelectSeq(order, LAMBDA k : IsPaired(el, k) /\ ~IsEmptySentinel(el, k))

get_normalization(el, order) ==
    LET nc == norm_confs(el, order)
    IN  IF nc = <<>> THEN <<None, None>>
        ELSE <<get_norm_curie(nc[1], norms(el)[nc[1]]), confs(el)[nc[1]]>>

(***************************************************************************)
(* Offsets: offset.split('-') and int().                                   *)
(***************************************************************************)
Digits == <<"0", "1", "2", "3", "4", "5", "6", "7", "8", "9">>

IsDigit(t) == t \in Range(Digits)

DigitVal(t) == (CHOOSE i \in DOMAIN Digits : Digits[i] = t) - 1

\* s.strip() as int() applies it: surrounding whitespace is dropped
Strip(s) ==
    LET inked == { i \in DOMAIN s : s[i] # " " }
    IN  IF inked = {} THEN <<>>
        ELSE SubSeq(s, CHOOSE i \in inked : \A j \in inked : i <= j,
                       CHOOSE i \in inked : \A j \in inked : j <= i)

\* the literal without its sign
Unsigned(s) == IF s # <<>> /\ s[1] \in {"+", "-"} THEN Tail(s) ELSE s

\* int(s) accepts, between optional whitespace, an optional sign and a run
\* of decimal digits in which single underscores may separate digits
IsInt(s) ==
    LET body == Unsigned(Strip(s))
    IN  /\ body # <<>>
        /\ IsDigit(body[1]) /\ IsDigit(body[Len(body)])
        /\ \A i \in DOMAIN body :
               \/ IsDigit(body[i])
               \/ body[i] = "_" /\ IsDigit(body[i - 1]) /\ IsDigit(body[i + 1])

RECURSIVE Decimal(_)
Decimal(ds) ==
    IF ds = <<>> THEN 0
    ELSE 10 * Decimal(SubSeq(ds, 1, Len(ds) - 1)) + DigitVal(ds[Len(ds)])

\* int(s) for a string int() accepts
ToInt(s) ==
    LET t == Strip(s)
        magnitude == Decimal(SelectSeq(Unsigned(t), IsDigit))
    IN  IF t[1] = "-" THEN 0 - magnitude ELSE magnitude

\* s.split(sep): the pieces between the separators, empty pieces included
RECURSIVE Split(_, _)
Split(s, sep) ==
    IF \A i \in DOMAIN s : s[i] # sep THEN <<s>>
    ELSE LET i == CHOOSE j \in DOMAIN s :
                      s[j] = sep /\ \A k \in 1..(j - 1) : s[k] # sep
         IN  <<SubSeq(s, 1, i - 1)>> \o Split(SubSeq(s, i + 1, Len(s)), sep)

\* the same without the assertion
ParseOffset_unchecked(offset) ==
    LET parts == Split(offset, "-")
    IN  IF Len(parts) # 2 THEN [exc |-> "ValueError", start |-> 0, end |-> 0]
        ELSE IF ~IsInt(parts[1]) \/ ~IsInt(parts[2])
            THEN [exc |-> "ValueError", start |-> 0, end |-> 0]
        ELSE [exc |-> "none", start |-> ToInt(parts[1]), end |-> ToInt(parts[2])]

\* self.start, self.end = map(int, offset.split('-')); assert start <= end
ParseOffset(offset) ==
    LET parts == Split(offset, "-")
    IN  IF Len(parts) # 2 THEN [exc |-> "ValueError", start |-> 0, end |-> 0]
        ELSE IF ~IsInt(parts[1]) \/ ~IsInt(parts[2])
            THEN [exc |-> "ValueError", start |-> 0, end |-> 0]
        ELSE IF ToInt(parts[1]) > ToInt(parts[2])
            THEN [exc |-> "AssertionError", start |-> 0, end |-> 0]
        ELSE [exc |-> "none", start |-> ToInt(parts[1]), end |-> ToInt(parts[2])]

(***************************************************************************)
(* Element parsers.  An object is a record; cls names its class.  The      *)
(* back-references (Span.sentence, Sentence.document) are the containment  *)
(* of the records.  head_score is the headScore attribute as the string it *)
(* is in the XML, or the integer -99 when the attribute is absent.         *)
(***************************************************************************)
StrScore(s) == [isstr |-> TRUE, s |-> s, n |-> 0]

IntScore(n) == [isstr |-> FALSE, s |-> <<>>, n |-> n]

NoHeadScore == -99

EntityMissingDirect(el) ==
    \/ ~Has(el, Str("entity_type"))
    \/ ~Has(el, Str("charOffset"))
    \/ ~Has(el, Str("text"))

\* the iteration order used when an element is parsed as part of a document
IterOrder(S) == CHOOSE o \in SetIterOrders(S) : TRUE

EntityObj(id, type, sp, offset, text, orig_id, nrm) ==
    [cls |-> "Entity", id |-> id, type |-> type, start |-> sp.start,
     end |-> sp.end, offset |-> offset, text |-> text, orig_id |-> orig_id,
     norm_id |-> nrm[1], norm_conf |-> nrm[2], uid |-> None, norm_uid |-> None]

Entity_from_xml(el, opts, g) ==
    LET r1 == get_attrib(el, Str("id"), opts, g)
    IN  IF r1.exc # "none" THEN Raise(r1.exc, r1.g)
        ELSE IF EntityMissingDirect(el) THEN Raise("KeyError", r1.g)
        ELSE
          LET r2 == get_attrib(el, Str("origId"), opts, r1.g)
          IN  IF r2.exc # "none" THEN Raise(r2.exc, r2.g)
              ELSE
                LET nrm == get_normalization(el, IterOrder(NormKeySet(el)))
                    sp == ParseOffset(el.attrib[Str("charOffset")])
                IN  IF sp.exc # "none" THEN Raise(sp.exc, r2.g)
                    ELSE Return(EntityObj(r1.val, el.attrib[Str("entity_type")],
                                          sp, el.attrib[Str("charOffset")],
                                          el.attrib[Str("text")], r2.val, nrm),
                                r2.g)

Token_from_xml(el, opts, g) ==
    IF \E k \in {"id", "POS", "charOffset", "text"} : ~Has(el, Str(k))
    THEN Raise("KeyError", g)
    ELSE
      LET sp == ParseOffset(el.attrib[Str("charOffset")])
          head_score == IF Has(el, Str("headScore"))
                        THEN StrScore(el.attrib[Str("headScore")])
                        ELSE IntScore(NoHeadScore)
      IN  IF sp.exc # "none" THEN Raise(sp.exc, g)
          ELSE Return([cls |-> "Token", id |-> el.attrib[Str("id")],
                       pos |-> el.attrib[Str("POS")], start |-> sp.start,
                       end |-> sp.end, offset |-> el.attrib[Str("charOffset")],
                       text |-> el.attrib[Str("text")], head_score |-> head_score,
                       type |-> Str("Token"), uid |-> None], g)

Dependency_from_xml(el, opts, g) ==
    IF \E k \in {"id", "t1", "t2", "type"} : ~Has(el, Str(k))
    THEN Raise("KeyError", g)
    ELSE Return([cls |-> "Dependency", id |-> el.attrib[Str("id")],
                 type |-> el.attrib[Str("type")], start |-> el.attrib[Str("t1")],
                 end |-> el.attrib[Str("t2")], uid |-> None], g)

\* Phrase.from_xml followed by p.assign_text(text)
Phrase_from_xml(el, sentence_text, g) ==
    IF \E k \in {"id", "type", "charOffset"} : ~Has(el, Str(k))
    THEN Raise("KeyError", g)
    ELSE
      LET sp == ParseOffset(el.attrib[Str("charOffset")])
      IN  IF sp.exc # "none" THEN Raise(sp.exc, g)
          ELSE Return([cls |-> "Phrase", id |-> el.attrib[Str("id")],
                       type |-> Str("Phrase-") \o el.attrib[Str("type")],
                       start |-> sp.start, end |-> sp.end,
                       offset |-> el.attrib[Str("charOffset")],
                       text |-> Slice(sentence_text, sp.start, sp.end),
                       uid |-> None], g)

(***************************************************************************)
(* Sentence.from_xml and Sentence.__init__.                                *)
(***************************************************************************)
\* the evex_entity loop: a failing entity is dropped under recover, and is
\* a FormatError for the sentence otherwise
RECURSIVE ParseEntities(_, _, _, _)
ParseEntities(elems, opts, g, acc) ==
    IF elems = <<>> THEN Return(acc, g)
    ELSE
      The({ IF r.exc = "none"
            THEN ParseEntities(Tail(elems), opts, r.g, Append(acc, r.val))
            ELSE IF opts.recover
                THEN ParseEntities(Tail(elems), opts, r.g, acc)
                ELSE Raise("FormatError", r.g) :
            r \in {Entity_from_xml(Head(elems), opts, g)} })

ParseOne(which, el, opts, text, g) ==
    CASE which = "token" -> Token_from_xml(el, opts, g)
      [] which = "dependency" -> Dependency_from_xml(el, opts, g)
      [] which = "phrase" -> Phrase_from_xml(el, text, g)

\* the token, dependency and phrase loops: any failure is a FormatError
RECURSIVE ParseSeq(_, _, _, _, _, _)
ParseSeq(which, elems, opts, text, g, acc) ==
    IF elems = <<>> THEN Return(acc, g)
    ELSE
      The({ IF r.exc = "none"
            THEN ParseSeq(which, Tail(elems), opts, text, r.g, Append(acc, r.val))
            ELSE Raise("FormatError", r.g) :
            r \in {ParseOne(which, Head(elems), opts, text, g)} })

\* { t.id: t for t in tokens }: the position of the last token with each id
TokenById(tokens) ==
    [ id \in { tokens[i].id : i \in DOMAIN tokens } |->
        CHOOSE i \in DOMAIN tokens :
            tokens[i].id = id /\ \A j \in DOMAIN tokens : tokens[j].id = id => j <= i ]

Sentence_init(id, text, offset, entities, tokens, phrases, dependencies, g) ==
    LET sp == ParseOffset(offset)
    IN  IF sp.exc # "none" THEN Raise(sp.exc, g)
        ELSE Return([cls |-> "Sentence", id |-> id, text |-> text,
                     start |-> sp.start, end |-> sp.end, offset |-> offset,
                     entities |-> entities, tokens |-> tokens,
                     phrases |-> phrases, dependencies |-> dependencies,
                     token_by_id |-> TokenById(tokens)], g)

\* the four element loops of Sentence.from_xml: [exc, entities, tokens,
\* dependencies, phrases, g]
SentenceParts(el, opts, g) ==
    LET text == el.attrib[Str("text")]
        analyses == FindAll(el, "analyses")
        parses == Descend(analyses, "parse")
    IN  The({ IF ents.exc # "none"
              THEN [exc |-> ents.exc, g |-> ents.g]
              ELSE IF toks.exc # "none" \/ deps.exc # "none" \/ phrs.exc # "none"
                  THEN [exc |-> "FormatError", g |-> ents.g]
              ELSE [exc |-> "none", g |-> ents.g, entities |-> ents.val,
                    tokens |-> toks.val, dependencies |-> deps.val,
                    phrases |-> phrs.val] :
              ents \in {ParseEntities(FindAll(el, "evex_entity"), opts, g, <<>>)},
              toks \in {IF opts.no_tokens THEN Return(<<>>, g)
                        ELSE ParseSeq("token",
                                      Descend(Descend(analyses, "tokenization"),
                                              "token"),
                                      opts, text, g, <<>>)},
              deps \in {IF opts.no_tokens THEN Return(<<>>, g)
                        ELSE ParseSeq("dependency", Descend(parses, "dependency"),
                                      opts, text, g, <<>>)},
              phrs \in {IF ~opts.phrases THEN Return(<<>>, g)
                        ELSE ParseSeq("phrase", Descend(parses, "phrase"),
                                      opts, text, g, <<>>)} })

Sentence_from_xml(el, opts, g) ==
    IF \E k \in {"id", "text", "charOffset"} : ~Has(el, Str(k))
    THEN Raise("KeyError", g)
    ELSE
      The({ IF p.exc # "none" THEN Raise(p.exc, p.g)
            ELSE Sentence_init(el.attrib[Str("id")], el.attrib[Str("text")],
                               el.attrib[Str("charOffset")], p.entities,
                               p.tokens, p.phrases, p.dependencies, p.g) :
            p \in {SentenceParts(el, opts, g)} })

(***************************************************************************)
(* Sentence.find_head.  Python orders two str scores by code point, two    *)
(* int scores numerically, and raises TypeError when max() meets a str     *)
(* and an int.                                                             *)
(***************************************************************************)
\* a < b for two strings of digits
RECURSIVE StrLess(_, _)
StrLess(a, b) ==
    IF a = <<>> THEN b # <<>>
    ELSE IF b = <<>> THEN FALSE
    ELSE IF a[1] = b[1] THEN StrLess(Tail(a), Tail(b))
    ELSE DigitVal(a[1]) < DigitVal(b[1])

\* a < b for two head scores of the same type
ScoreLess(a, b) == IF a.isstr THEN StrLess(a.s, b.s) ELSE a.n < b.n

Spanned(tokens, start, end) ==
    SelectSeq(tokens, LAMBDA t : t.start < end /\ t.end > start)

find_head(tokens, start, end) ==
    LET spanned == Spanned(tokens, start, end)
    IN  IF spanned = <<>> THEN [exc |-> "ValueError", val |-> None]
        ELSE IF \E i, j \in DOMAIN spanned :
                    spanned[i].head_score.isstr # spanned[j].head_score.isstr
            THEN [exc |-> "TypeError", val |-> None]
        ELSE
          LET max_score ==
                  spanned[CHOOSE i \in DOMAIN spanned :
                              \A j \in DOMAIN spanned :
                                  ~ScoreLess(spanned[i].head_score,
                                             spanned[j].head_score)].head_score
              max_scoring == SelectSeq(spanned, LAMBDA t : t.head_score = max_score)
          IN  [exc |-> "none", val |-> max_scoring[Len(max_scoring)]]

(***************************************************************************)
(* Identifier allocation.  next_free_idx is a defaultdict(lambda: 1): a    *)
(* function from the kinds used so far to their next free index.           *)
(***************************************************************************)
FirstIdx == 1

NewIdx == [k \in {} |-> FirstIdx]

Get(idx, k) == IF k \in DOMAIN idx THEN idx[k] ELSE FirstIdx

Put(idx, k, v) == [x \in DOMAIN idx \cup {k} |-> IF x = k THEN v ELSE idx[x]]

\* a Span.assign_uids that forgets to advance the counter
Span_assign_uids_stuck(i, idx) ==
    [item |-> [i EXCEPT !.uid = Format("T", Get(idx, "T"))],
     idx |-> idx]

Span_assign_uids(i, idx) ==
    [item |-> [i EXCEPT !.uid = Format("T", Get(idx, "T"))],
     idx |-> Put(idx, "T", Get(idx, "T") + 1)]

\* a norm_uid minted for every entity, normalized or not
Entity_assign_uids_always_norm(i, idx) ==
    LET r == Span_assign_uids(i, idx)
    IN  [item |-> [r.item EXCEPT !.norm_uid = Format("N", Get(r.idx, "N"))],
         idx |-> Put(r.idx, "N", Get(r.idx, "N") + 1)]

Entity_assign_uids(i, idx) ==
    LET r == Span_assign_uids(i, idx)
    IN  IF i.norm_id # None
        THEN [item |-> [r.item EXCEPT !.norm_uid = Format("N", Get(r.idx, "N"))],
              idx |-> Put(r.idx, "N", Get(r.idx, "N") + 1)]
        ELSE r

Dependency_assign_uids(i, idx) ==
    [item |-> [i EXCEPT !.uid = Format("R", Get(idx, "R"))],
     idx |-> Put(idx, "R", Get(idx, "R") + 1)]

\* i.assign_uids(next_free_idx), dispatched on the class of i
assign_uids(i, idx) ==
    CASE i.cls = "Entity" -> Entity_assign_uids(i, idx)
      [] i.cls = "Dependency" -> Dependency_assign_uids(i, idx)
      [] OTHER -> Span_assign_uids(i, idx)

RECURSIVE AssignItems(_, _, _)
AssignItems(items, idx, acc) ==
    IF items = <<>> THEN [items |-> acc, idx |-> idx]
    ELSE The({ AssignItems(Tail(items), r.idx, Append(acc, r.item)) :
               r \in {assign_uids(Head(items), idx)} })

\* a Sentence.assign_uids that chains entities before tokens and phrases
Sentence_assign_uids_entities_first(s, idx) ==
    The({ [item |-> [s EXCEPT !.entities = SubSeq(r.items, 1, ne),
                              !.tokens = SubSeq(r.items, ne + 1, ne + nt),
                              !.phrases = SubSeq(r.items, ne + nt + 1, ne + nt + np),
                              !.dependencies =
                                  SubSeq(r.items, nt + np + ne + 1, Len(r.items))],
           idx |-> r.idx] :
          r \in {AssignItems(s.entities \o s.tokens \o s.phrases \o s.dependencies,
                             idx, <<>>)},
          nt \in {Len(s.tokens)}, np \in {Len(s.phrases)},
          ne \in {Len(s.entities)} })

\* for i in chain(tokens, phrases, entities, dependencies): i.assign_uids(idx)
Sentence_assign_uids(s, idx) ==
    The({ [item |-> [s EXCEPT !.tokens = SubSeq(r.items, 1, nt),
                              !.phrases = SubSeq(r.items, nt + 1, nt + np),
                              !.entities = SubSeq(r.items, nt + np + 1, nt + np + ne),
                              !.dependencies =
                                  SubSeq(r.items, nt + np + ne + 1, Len(r.items))],
           idx |-> r.idx] :
          r \in {AssignItems(s.tokens \o s.phrases \o s.entities \o s.dependencies,
                             idx, <<>>)},
          nt \in {Len(s.tokens)}, np \in {Len(s.phrases)},
          ne \in {Len(s.entities)} })

RECURSIVE AssignSentences(_, _, _)
AssignSentences(sents, idx, acc) ==
    IF sents = <<>> THEN acc
    ELSE The({ AssignSentences(Tail(sents), r.idx, Append(acc, r.item)) :
               r \in {Sentence_assign_uids(Head(sents), idx)} })

\* Document.assign_uids() with next_free_idx=None
Document_assign_uids(doc) ==
    [doc EXCEPT !.sentences = AssignSentences(doc.sentences, NewIdx, <<>>)]

(***************************************************************************)
(* Document.__init__ and Document.from_xml.                                *)
(***************************************************************************)
Document_init(id, orig_id, text, sentences) ==
    Document_assign_uids([cls |-> "Document", id |-> id, orig_id |-> orig_id,
                          text |-> text, sentences |-> sentences])

\* a sentence loop that gives up on the rest of the document at the first
\* failing sentence under recover
RECURSIVE ParseSentences_stop(_, _, _, _)
ParseSentences_stop(elems, opts, g, acc) ==
    IF elems = <<>> THEN Return(acc, g)
    ELSE
      The({ IF r.exc = "none"
            THEN ParseSentences_stop(Tail(elems), opts, r.g, Append(acc, r.val))
            ELSE IF opts.recover
                THEN Return(acc, r.g)
                ELSE Raise("FormatError", r.g) :
            r \in {Sentence_from_xml(Head(elems), opts, g)} })

\* the sentence loop: a failing sentence is skipped under recover, and is a
\* FormatError for the document otherwise
RECURSIVE ParseSentences(_, _, _, _)
ParseSentences(elems, opts, g, acc) ==
    IF elems = <<>> THEN Return(acc, g)
    ELSE
      The({ IF r.exc = "none"
            THEN ParseSentences(Tail(elems), opts, r.g, Append(acc, r.val))
            ELSE IF opts.recover
                THEN ParseSentences(Tail(elems), opts, r.g, acc)
                ELSE Raise("FormatError", r.g) :
            r \in {Sentence_from_xml(Head(elems), opts, g)} })

Document_from_xml(el, opts, g) ==
    IF \E k \in {"id", "origId", "text"} : ~Has(el, Str(k))
    THEN Raise("KeyError", g)
    ELSE
      The({ IF r.exc # "none" THEN Raise(r.exc, r.g)
            ELSE Return(Document_init(el.attrib[Str("id")],
                                      el.attrib[Str("origId")],
                                      el.attrib[Str("text")], r.val), r.g) :
            r \in {ParseSentences(FindAll(el, "sentence"), opts, g, <<>>)} })

(***************************************************************************)
(* Output sinks.  A writer is [kind, base_dir, store, known_directories]:  *)
(* store maps a path (FilesystemWriter) or a key (SQLiteWriter) to its     *)
(* content.  A stream object is [key, data, closed].  An option that is an *)
(* integer or None (limit, dir_prefix) is <<n>> or None.                   *)
(***************************************************************************)
DEFAULT_OUT == <<"converted">>

FilesystemWriter_init(base_dir) ==
    [kind |-> "fs", base_dir |-> base_dir, store |-> <<>>, known_directories |-> {}]

\* SQLiteWriter.__init__ and __enter__
SQLiteWriter_init(dbname) ==
    [kind |-> "sqlite", base_dir |-> dbname, store |-> <<>>, known_directories |-> {}]

\* os.path.join of two relative paths
PathJoin(a, b) == IF a = <<>> THEN b ELSE a \o <<"/">> \o b

\* os.path.dirname
Dirname(path) ==
    LET slashes == { i \in DOMAIN path : path[i] = "/" }
    IN  IF slashes = {} THEN <<>>
        ELSE SubSeq(path, 1, (CHOOSE i \in slashes : \A j \in slashes : j <= i) - 1)

\* ''.join(data)
RECURSIVE JoinStr(_)
JoinStr(data) == IF data = <<>> THEN <<>> ELSE Head(data) \o JoinStr(Tail(data))

SetKey(store, key, content) ==
    [ k \in DOMAIN store \cup {key} |-> IF k = key THEN content ELSE store[k] ]

\* FilesystemWriter.open up to the yield: the file is created or truncated
FilesystemWriter_open(w, path) ==
    LET full == PathJoin(w.base_dir, path)
        directory == Dirname(full)
    IN  [w |-> [w EXCEPT !.known_directories = @ \cup {directory},
                         !.store = SetKey(@, full, <<>>)],
         f |-> [key |-> full, data |-> <<>>, closed |-> FALSE]]

\* SQLiteWriter.open up to the yield: f = SQLiteFile(path, self.db)
SQLiteWriter_open(w, path) ==
    [w |-> w, f |-> [key |-> path, data |-> <<>>, closed |-> FALSE]]

Writer_open(w, path) ==
    IF w.kind = "fs" THEN FilesystemWriter_open(w, path) ELSE SQLiteWriter_open(w, path)

\* f.write(data): SQLiteFile appends to its list, a file to its buffer
File_write(fo, data) == [fo EXCEPT !.data = Append(@, data)]

\* f.close(): the file's buffer reaches the disk; SQLiteFile.close flushes
\* (db[key] = ''.join(data), commit) and drops the db
File_close(w, fo) ==
    [w |-> [w EXCEPT !.store = SetKey(@, fo.key, JoinStr(fo.data))],
     f |-> [fo EXCEPT !.closed = TRUE]]

\* leaving the with-block without the finally clause running on an exception
Writer_exit_no_finally(w, fo, exc) ==
    IF exc = "none" THEN File_close(w, fo) ELSE [w |-> w, f |-> fo]

\* the rest of open() after the yield: try: yield f / finally: f.close(),
\* exc being the exception the body left with ("none" if none)
Writer_exit(w, fo, exc) == File_close(w, fo)

(***************************************************************************)
(* Annotation lines and the writers of converttees.py.                     *)
(***************************************************************************)
\* '{}'.format(n) for an integer n >= 0
RECURSIVE ToStr(_)
ToStr(n) == IF n < 10 THEN <<Digits[n + 1]>>
            ELSE ToStr(n \div 10) \o <<Digits[(n % 10) + 1]>>

\* '{}'.format(uid)
UidStr(uid) == IF uid = None THEN <<"None">> ELSE <<uid[1]>> \o ToStr(uid[2])

Span_to_ann_lines(self, base_offset) ==
    << UidStr(self.uid) \o <<"\t">> \o self.type \o <<" ">>
       \o ToStr(self.start + base_offset) \o <<" ">>
       \o ToStr(self.end + base_offset) \o <<"\t">> \o self.text >>

Entity_to_ann_lines(self, base_offset) ==
    Span_to_ann_lines(self, base_offset) \o
    (IF self.norm_id # None
     THEN << UidStr(self.norm_uid) \o <<"\t", "Reference", " ">> \o UidStr(self.uid)
             \o <<" ">> \o self.norm_id \o <<"\t">> \o self.text
             \o <<" ", "[confidence:">> \o self.norm_conf \o <<"]">> >>
     ELSE <<>>)

\* Sentence.get_token_uid: token_by_id.get(id_).uid
get_token_uid(sentence, id) ==
    IF id \in DOMAIN sentence.token_by_id
    THEN [exc |-> "none", val |-> sentence.tokens[sentence.token_by_id[id]].uid]
    ELSE [exc |-> "AttributeError", val |-> None]

Dependency_to_ann_lines(self, sentence) ==
    LET s_id == get_token_uid(sentence, self.start)
        e_id == get_token_uid(sentence, self.end)
    IN  IF s_id.exc # "none" \/ e_id.exc # "none"
        THEN [exc |-> "AttributeError", val |-> None]
        ELSE [exc |-> "none",
              val |-> << UidStr(self.uid) \o <<"\t">> \o self.type
                         \o <<" ", "Arg1:">> \o UidStr(s_id.val)
                         \o <<" ", "Arg2:">> \o UidStr(e_id.val) >>]

\* the methods each class of teesxml.py defines or inherits
Methods(cls) ==
    CASE cls = "Entity" -> {"__init__", "assign_uids", "retype", "to_ann_lines",
                            "from_xml", "get_normalization"}
      [] cls = "Token" -> {"__init__", "assign_uids", "retype", "to_ann_lines",
                           "__str__", "__repr__", "from_xml"}
      [] cls = "Phrase" -> {"__init__", "assign_uids", "retype", "to_ann_lines",
                            "assign_text", "from_xml"}
      [] cls = "Dependency" -> {"__init__", "assign_uids", "to_ann_lines", "from_xml"}

\* obj.name(...) for the annotation methods: looking up a name the class
\* does not have is an AttributeError
Invoke(obj, name, sentence, base_offset) ==
    IF name \notin Methods(obj.cls) THEN [exc |-> "AttributeError", val |-> None]
    ELSE CASE obj.cls = "Entity" ->
                [exc |-> "none", val |-> Entity_to_ann_lines(obj, base_offset)]
           [] obj.cls \in {"Token", "Phrase"} ->
                [exc |-> "none", val |-> Span_to_ann_lines(obj, base_offset)]
           [] obj.cls = "Dependency" -> Dependency_to_ann_lines(obj, sentence)

TYPE_MAP(type) ==
    CASE type = Str("cel") -> Str("Cell")
      [] type = Str("che") -> Str("Chemical")
      [] type = Str("dis") -> Str("Disease")
      [] type = Str("ggp") -> Str("Gene")
      [] type = Str("org") -> Str("Organism")
      [] OTHER -> type

\* the receivers of the to_ann calls of write_annotations, in call order
AnnReceivers(sentence, opts) ==
    [ i \in DOMAIN sentence.entities |->
        IF opts.retype
        THEN [sentence.entities[i] EXCEPT !.type = TYPE_MAP(@)]
        ELSE sentence.entities[i] ] \o
    (IF ~opts.no_tokens
     THEN sentence.tokens \o (IF ~opts.no_deps THEN sentence.dependencies ELSE <<>>)
     ELSE <<>>)

\* out.write(x.to_ann(...) + '\n') for each receiver in turn: [exc, f]
RECURSIVE WriteAnn(_, _, _, _)
WriteAnn(receivers, sentence, out, base_offset) ==
    IF receivers = <<>> THEN [exc |-> "none", f |-> out]
    ELSE
      The({ IF r.exc # "none" THEN [exc |-> r.exc, f |-> out]
            ELSE WriteAnn(Tail(receivers), sentence,
                          File_write(out, JoinStr(r.val) \o <<"\n">>), base_offset) :
            r \in {Invoke(Head(receivers), "to_ann", sentence, base_offset)} })

write_annotations(sentence, out, base_offset, opts) ==
    WriteAnn(AnnReceivers(sentence, opts), sentence, out, base_offset)

document_path(doc_id, opts) ==
    IF opts.dir_prefix = None THEN <<>>
    ELSE SubSeq(doc_id, 1, IF opts.dir_prefix[1] < Len(doc_id)
                           THEN opts.dir_prefix[1] ELSE Len(doc_id))

\* the end of a with-block: o is what open() gave up to its yield, body the
\* outcome [exc, f] of the block's body -- [exc, w]
Leave(o, body) ==
    The({ [exc |-> b.exc, w |-> Writer_exit(o.w, b.f, b.exc).w] : b \in {body} })

\* with writer.open(path) as out: out.write(text + '\n')
WriteText(w, path, text) ==
    The({ Leave(o, [exc |-> "none", f |-> File_write(o.f, text \o <<"\n">>)]) :
          o \in {Writer_open(w, path)} })

write_sentence(w, sentence, doc_id, sent_seq, opts) ==
    LET doc_path == document_path(doc_id, opts)
        txt_fn == PathJoin(doc_path, doc_id \o <<".">> \o ToStr(sent_seq) \o <<".txt">>)
        ann_fn == PathJoin(doc_path, doc_id \o <<".">> \o ToStr(sent_seq) \o <<".ann">>)
    IN  The({ IF r.exc # "none" THEN r
              ELSE The({ Leave(o, write_annotations(sentence, o.f, 0, opts)) :
                         o \in {Writer_open(r.w, ann_fn)} }) :
              r \in {WriteText(w, txt_fn, sentence.text)} })

\* for i, s in enumerate(document.sentences): write_sentence(...)
RECURSIVE WriteSentences(_, _, _, _, _)
WriteSentences(w, sentences, doc_id, i, opts) ==
    IF i >= Len(sentences) THEN [exc |-> "none", w |-> w]
    ELSE
      The({ IF r.exc # "none" THEN r
            ELSE WriteSentences(r.w, sentences, doc_id, i + 1, opts) :
            r \in {write_sentence(w, sentences[i + 1], doc_id, i, opts)} })

\* for s in document.sentences: write_annotations(s, out, s.start, options)
RECURSIVE WriteAllAnnotations(_, _, _)
WriteAllAnnotations(sentences, out, opts) ==
    IF sentences = <<>> THEN [exc |-> "none", f |-> out]
    ELSE
      The({ IF r.exc # "none" THEN r
            ELSE WriteAllAnnotations(Tail(sentences), r.f, opts) :
            r \in {write_annotations(Head(sentences), out, Head(sentences).start, opts)} })

DocTxtFn(doc, opts) ==
    PathJoin(document_path(doc.orig_id, opts), doc.orig_id \o <<".txt">>)

DocAnnFn(doc, opts) ==
    PathJoin(document_path(doc.orig_id, opts), doc.orig_id \o <<".ann">>)

write_document(w, doc, opts) ==
    IF opts.sentences
    THEN WriteSentences(w, doc.sentences, doc.orig_id, 0, opts)
    ELSE
      The({ IF r.exc # "none" THEN r
            ELSE The({ Leave(o, WriteAllAnnotations(doc.sentences, o.f, opts)) :
                       o \in {Writer_open(r.w, DocAnnFn(doc, opts))} }) :
            r \in {WriteText(w, DocTxtFn(doc, opts), doc.text)} })

(***************************************************************************)
(* Input documents.  A <document> is drawn by shape: per sentence the      *)
(* variant of the sentence, of each token and of each entity, and the      *)
(* number of phrases and dependencies.  The size of a document is the      *)
(* number of its sentences plus the number of their elements.              *)
(***************************************************************************)
\* the attribute map with the given (name, value) pairs; names are distinct
RECURSIVE AttrMap(_)
AttrMap(pairs) ==
    IF Len(pairs) = 1 THEN Head(pairs)[1] :> Head(pairs)[2]
    ELSE (Head(pairs)[1] :> Head(pairs)[2]) @@ AttrMap(Tail(pairs))

Without(attrib, key) == [ k \in DOMAIN attrib \ {key} |-> attrib[k] ]

LocalId(letter, i) == <<letter, Digits[i + 1]>>

OffsetStr(a, b) == <<Digits[a + 1], "-", Digits[b + 1]>>

TokenVariants == {"scored", "unscored", "noPOS", "badOffset"}

TokenElem(i, variant) ==
    LET full == AttrMap(<< <<Str("id"), LocalId("t", i)>>,
                           <<Str("POS"), Str("NN")>>,
                           <<Str("charOffset"), OffsetStr(i - 1, i)>>,
                           <<Str("text"), Str(Digits[i])>>,
                           <<Str("headScore"), Str(Digits[i])>> >>)
    IN  Elem("token",
             CASE variant = "scored" -> full
               [] variant = "unscored" -> Without(full, Str("headScore"))
               [] variant = "noPOS" -> Without(full, Str("POS"))
               [] variant = "badOffset" ->
                    [full EXCEPT ![Str("charOffset")] = OffsetStr(i, i - 1)],
             <<>>)

EntityVariants == {"plain", "norm", "sentinel", "noOrigId", "noId", "noType", "badOffset"}

EntityElem(i, variant) ==
    LET full == AttrMap(<< <<Str("id"), LocalId("e", i)>>,
                           <<Str("entity_type"), Str("ggp")>>,
                           <<Str("charOffset"), OffsetStr(0, i)>>,
                           <<Str("text"), Str("p53")>>,
                           <<Str("origId"), LocalId("o", i)>> >>)
        normed == AttrMap(<< <<Str("id"), LocalId("e", i)>>,
                             <<Str("entity_type"), Str("org")>>,
                             <<Str("charOffset"), OffsetStr(0, i)>>,
                             <<Str("text"), Str("human")>>,
                             <<Str("origId"), LocalId("o", i)>>,
                             <<<<"norm_", "ncbitax_id">>, Str("9606")>>,
                             <<<<"norm_", "ncbitax_id", "_conf">>, Str("1.0")>> >>)
    IN  Elem("evex_entity",
             CASE variant = "plain" -> full
               [] variant = "norm" -> normed
               [] variant = "sentinel" ->
                    full @@ AttrMap(<< <<<<"norm_", "cui">>, Str("NA")>>,
                                       <<<<"norm_", "cui", "_conf">>, Str("1.0")>> >>)
               [] variant = "noOrigId" -> Without(full, Str("origId"))
               [] variant = "noId" -> Without(full, Str("id"))
               [] variant = "noType" -> Without(full, Str("entity_type"))
               [] variant = "badOffset" ->
                    [full EXCEPT ![Str("charOffset")] = OffsetStr(i, 0)],
             <<>>)

PhraseElem(i) ==
    Elem("phrase", AttrMap(<< <<Str("id"), LocalId("p", i)>>,
                              <<Str("type"), Str("NP")>>,
                              <<Str("charOffset"), OffsetStr(i - 1, i + 1)>> >>), <<>>)

\* dependency i runs from token i to token i + 1 of its sentence
DependencyElem(i) ==
    Elem("dependency", AttrMap(<< <<Str("id"), LocalId("d", i)>>,
                                  <<Str("t1"), LocalId("t", i)>>,
                                  <<Str("t2"), LocalId("t", i + 1)>>,
                                  <<Str("type"), Str("nsubj")>> >>), <<>>)

\* the first phrase of a badPhrase sentence runs backwards
BadPhraseElem(i) ==
    Elem("phrase", [PhraseElem(i).attrib EXCEPT ![Str("charOffset")] = OffsetStr(i, i - 1)],
         <<>>)

SentenceVariants == {"ok", "noText", "badOffset", "badPhrase"}

SentenceText == <<"a", "b", "c", "d", "e", "f", "g", "h">>

SentenceElem(i, sh) ==
    LET full == AttrMap(<< <<Str("id"), LocalId("s", i)>>,
                           <<Str("text"), SentenceText>>,
                           <<Str("charOffset"), OffsetStr(i - 1, i)>> >>)
        ents == [ k \in DOMAIN sh.ents |-> EntityElem(k, sh.ents[k]) ]
        toks == [ k \in DOMAIN sh.toks |-> TokenElem(k, sh.toks[k]) ]
        deps == [ k \in 1..sh.nd |-> DependencyElem(k) ]
        phrs == [ k \in 1..sh.np |->
                    IF sh.sv = "badPhrase" /\ k = 1 THEN BadPhraseElem(k)
                    ELSE PhraseElem(k) ]
    IN  Elem("sentence",
             CASE sh.sv \in {"ok", "badPhrase"} -> full
               [] sh.sv = "noText" -> Without(full, Str("text"))
               [] sh.sv = "badOffset" ->
                    [full EXCEPT ![Str("charOffset")] = OffsetStr(i, i - 1)],
             ents \o << Elem("analyses", <<>>,
                             << Elem("tokenization", <<>>, toks),
                                Elem("parse", <<>>, deps \o phrs) >>) >>)

DocumentVariants == {"ok", "noOrigId", "noText"}

DocumentElem(n, dv, shapes) ==
    LET full == AttrMap(<< <<Str("id"), LocalId("D", n)>>,
                           <<Str("origId"), LocalId("PMID", n)>>,
                           <<Str("text"), SentenceText>> >>)
    IN  Elem("document",
             CASE dv = "ok" -> full
               [] dv = "noOrigId" -> Without(full, Str("origId"))
               [] dv = "noText" -> Without(full, Str("text")),
             [ k \in DOMAIN shapes |-> SentenceElem(k, shapes[k]) ])

SeqsUpTo(S, n) == UNION { [1..k -> S] : k \in 0..n }

ShapeSize(sh) == 1 + Len(sh.toks) + Len(sh.ents) + sh.np + sh.nd

\* the sentence shapes of size at most n over the given variants
SentShapes(SV, TV, EV, n) ==
    UNION { UNION { { [sv |-> s, toks |-> t, ents |-> e, np |-> pd[1], nd |-> pd[2]] :
                        s \in SV,
                        pd \in { q \in (0..(n - 1)) \X (0..(n - 1)) :
                                   q[1] + q[2] <= n - 1 - Len(t) - Len(e) } } :
                    e \in SeqsUpTo(EV, n - 1 - Len(t)) } :
            t \in SeqsUpTo(TV, n - 1) }

\* the sequences of sentence shapes of total size at most n
RECURSIVE DocShapes(_, _, _, _)
DocShapes(SV, TV, EV, n) ==
    {<<>>} \cup
    UNION { { <<sh>> \o rest : rest \in DocShapes(SV, TV, EV, n - ShapeSize(sh)) } :
            sh \in SentShapes(SV, TV, EV, n) }

(***************************************************************************)
(* The parts of the state a specification does not use stay at rest.       *)
(***************************************************************************)
Options(recover, no_tokens, phrases) ==
    [recover |-> recover, no_tokens |-> no_tokens, phrases |-> phrases,
     no_deps |-> FALSE, retype |-> FALSE, sentences |-> FALSE,
     no_output |-> FALSE, limit |-> None, ids |-> None, dir_prefix |-> None]

DocIdle ==
    /\ element = None /\ options = Options(FALSE, FALSE, FALSE)
    /\ dpc = "idle" /\ document = None /\ raised = "none" /\ cache = 0
    /\ synthesized = <<>> /\ before = None /\ passes = 0

NormIdle == normElement = None /\ normResult = None /\ normDone = FALSE

HeadIdle ==
    headTokens = <<>> /\ headSpan = <<0, 0>> /\ headResult = None /\ headDone = FALSE

StreamIdle ==
    /\ stream = <<>> /\ pos = 0 /\ success = 0 /\ errorCount = 0
    /\ spc = "idle" /\ raisedIn = "none" /\ attempted = 0

OffsetIdle == offsetArg = None /\ offsetResult = None /\ offsetDone = FALSE

LinesIdle == entityLines = <<>>

SinkIdle ==
    /\ writer = None /\ f = None /\ wpc = "idle" /\ scopeKey = None
    /\ written = <<>> /\ scopeExit = "none" /\ nscopes = 0

(***************************************************************************)
(* Document.from_xml and Document.assign_uids as steps of one process.     *)
(***************************************************************************)
\* well-formed documents: every element parses
AllocShapes == DocShapes({"ok"}, {"scored"}, {"plain", "norm"}, MaxAllocSize)

\* documents with malformed sentences, tokens and entities
RecoverShapes ==
    DocShapes({"ok", "noText"}, {"scored", "noPOS"},
              {"plain", "noOrigId", "noId", "noType", "badOffset"}, MaxSize)

\* the process has parsed earlier documents and minted n placeholders
InitDoc(shapes, opts, prior) ==
    /\ \E sh \in shapes : element = DocumentElem(1, "ok", sh)
    /\ options \in opts
    /\ cache \in prior
    /\ synthesized = [ i \in 1..cache |-> Format("MISSING.", i) ]
    /\ dpc = "start" /\ document = None /\ raised = "none"
    /\ before = None /\ passes = 0
    /\ NormIdle /\ HeadIdle /\ StreamIdle /\ SinkIdle /\ OffsetIdle /\ LinesIdle

\* document = Document.from_xml(element, options)
FromXml ==
    /\ dpc = "start"
    /\ \E r \in {Document_from_xml(element, options,
                                   [cache |-> cache, log |-> synthesized])} :
           /\ raised' = r.exc
           /\ dpc' = IF r.exc = "none" THEN "built" ELSE "failed"
           /\ document' = r.val
           /\ before' = r.val
           /\ passes' = IF r.exc = "none" THEN 1 ELSE 0
           /\ cache' = r.g.cache
           /\ synthesized' = r.g.log
    /\ UNCHANGED <<element, options>>
    /\ UNCHANGED <<normVars, headVars, streamVars, sinkVars, offsetVars, linesVars>>

\* document.assign_uids() called again on the Document
AssignUids ==
    /\ dpc = "built"
    /\ passes < MaxPasses
    /\ before' = document
    /\ document' = Document_assign_uids(document)
    /\ passes' = passes + 1
    /\ UNCHANGED <<element, options, dpc, raised, cache, synthesized>>
    /\ UNCHANGED <<normVars, headVars, streamVars, sinkVars, offsetVars, linesVars>>

AllocOptions == { Options(FALSE, nt, ph) : nt \in BOOLEAN, ph \in BOOLEAN }

InitAlloc == InitDoc(AllocShapes, AllocOptions, {0})

NextAlloc == FromXml \/ AssignUids

SpecAlloc == InitAlloc /\ [][NextAlloc]_vars

RecoverOptions == { Options(rc, nt, FALSE) : rc \in BOOLEAN, nt \in BOOLEAN }

InitRecover == InitDoc(RecoverShapes, RecoverOptions, 0..MaxPrior)

NextRecover == FromXml \/ AssignUids

SpecRecover == InitRecover /\ [][NextRecover]_vars

(***************************************************************************)
(* Identifier allocation (SpecAlloc).                                      *)
(***************************************************************************)
RECURSIVE Concat(_)
Concat(ss) == IF ss = <<>> THEN <<>> ELSE Head(ss) \o Concat(Tail(ss))

\* the spans of a Document in visiting order: per sentence tokens, phrases,
\* entities
VisitedSpans(doc) ==
    Concat([ i \in DOMAIN doc.sentences |->
               doc.sentences[i].tokens \o doc.sentences[i].phrases
                 \o doc.sentences[i].entities ])

VisitedDependencies(doc) ==
    Concat([ i \in DOMAIN doc.sentences |-> doc.sentences[i].dependencies ])

VisitedEntities(doc) ==
    Concat([ i \in DOMAIN doc.sentences |-> doc.sentences[i].entities ])

Normalized(ents) == SelectSeq(ents, LAMBDA e : e.norm_id # None)

DistinctBy(items, Key(_)) ==
    \A i, j \in DOMAIN items : i # j => Key(items[i]) # Key(items[j])

UidOf(i) == i.uid

NormUidOf(i) == i.norm_uid

\* C1: once a Document has been constructed, no two of its spans (tokens,
\* phrases, entities, over all sentences) have the same uid, no two of its
\* dependencies have the same uid, and no two entities that carry a norm_uid
\* have the same norm_uid.
C1_UidsCollisionFree ==
    dpc = "built" =>
        /\ DistinctBy(VisitedSpans(document), UidOf)
        /\ DistinctBy(VisitedDependencies(document), UidOf)
        /\ DistinctBy(Normalized(VisitedEntities(document)), NormUidOf)

C1_Witness ==
    /\ dpc = "built"
    /\ Len(document.sentences) >= 2
    /\ \A i \in DOMAIN document.sentences :
           /\ Len(Normalized(document.sentences[i].entities)) >= 1
           /\ Len(document.sentences[i].dependencies) >= 1

\* C2: an allocation pass numbers the spans T1..Tn in visiting order
\* (sentences in source order; in a sentence tokens, then phrases, then
\* entities), the dependencies R1..Rm and the normalized entities N1..Nk,
\* each counter starting at 1 and advancing by 1; and a further call of
\* Document.assign_uids() on the unchanged tree leaves every uid as it was.
C2_AllocationOrder ==
    dpc = "built" =>
        /\ \A i \in DOMAIN VisitedSpans(document) :
               VisitedSpans(document)[i].uid = Format("T", i)
        /\ \A i \in DOMAIN VisitedDependencies(document) :
               VisitedDependencies(document)[i].uid = Format("R", i)
        /\ \A i \in DOMAIN Normalized(VisitedEntities(document)) :
               Normalized(VisitedEntities(document))[i].norm_uid = Format("N", i)
        /\ passes >= 2 => document = before

C2_Witness ==
    /\ dpc = "built"
    /\ passes >= 2
    /\ Len(document.sentences) >= 2
    /\ \E i \in DOMAIN document.sentences :
           /\ Len(document.sentences[i].tokens) >= 1
           /\ Len(document.sentences[i].entities) >= 1
    /\ \E i \in DOMAIN document.sentences :
           /\ Len(document.sentences[i].phrases) >= 1
           /\ Len(document.sentences[i].entities) >= 1

(***************************************************************************)
(* Error isolation and recovery (SpecRecover).                             *)
(***************************************************************************)
SentenceElems == FindAll(element, "sentence")

\* whether Sentence.from_xml returns for this <sentence> (the outcome does
\* not depend on the placeholder counter)
Assembles(se) ==
    Sentence_from_xml(se, options, [cache |-> 0, log |-> <<>>]).exc = "none"

AssembledElems == SelectSeq(SentenceElems, Assembles)

IdsOf(items) == [ i \in DOMAIN items |-> items[i].id ]

ElemIds(elems) == [ i \in DOMAIN elems |-> elems[i].attrib[Str("id")] ]

\* C4: with recovery enabled Document.from_xml returns a Document holding
\* exactly the sentences whose assembly succeeded, in source order; with
\* recovery disabled a failing sentence makes it raise FormatError and no
\* Document is returned (and with no failing sentence all are returned).
C4_SentenceIsolation ==
    dpc \in {"built", "failed"} =>
        IF options.recover \/ AssembledElems = SentenceElems
        THEN /\ dpc = "built"
             /\ IdsOf(document.sentences) = ElemIds(AssembledElems)
        ELSE /\ dpc = "failed"
             /\ raised = "FormatError"
             /\ document = None

C4_Witness ==
    /\ dpc = "built"
    /\ options.recover
    /\ \E i, j \in DOMAIN SentenceElems :
           i < j /\ ~Assembles(SentenceElems[i]) /\ Assembles(SentenceElems[j])
    /\ Len(document.sentences) >= 1

EntityElemsOf(se) == FindAll(se, "evex_entity")

EntityRequired == {"id", "entity_type", "charOffset", "text", "origId"}

\* the attributes Entity.from_xml reads through get_attrib
EntityRecovered == {"id", "origId"}

WellFormedOffset(ee) ==
    Has(ee, Str("charOffset")) => ParseOffset(ee.attrib[Str("charOffset")]).exc = "none"

\* the element lacks no attribute outside `lacking` and is otherwise valid
LacksOnly(ee, lacking) ==
    /\ \A k \in EntityRequired \ lacking : Has(ee, Str(k))
    /\ WellFormedOffset(ee)

IsPlaceholder(v) == StartsWith(v, Str("MISSING."))

\* the value of a recovered field of a kept entity: the attribute if it is
\* there, otherwise a placeholder minted in this step and never before
FieldRecovered(ee, key, v) ==
    IF Has(ee, Str(key)) THEN v = ee.attrib[Str(key)]
    ELSE /\ IsPlaceholder(v)
         /\ v \notin Range(synthesized)
         /\ v \in Range(synthesized')

\* the placeholders held by the entities of a Document, one per field
HeldPlaceholders(doc) ==
    SelectSeq(Concat([ i \in DOMAIN VisitedEntities(doc) |->
                         <<VisitedEntities(doc)[i].id,
                           VisitedEntities(doc)[i].orig_id>> ]),
              IsPlaceholder)

Self(v) == v

\* what a from_xml step does to the entities that lack attributes among
\* `lacking`
RecoveryStep(lacking) ==
    IF options.recover
    THEN dpc' = "built" =>
           /\ \A k \in DOMAIN AssembledElems :
                \E kept \in {SelectSeq(EntityElemsOf(AssembledElems[k]),
                                       LAMBDA ee : LacksOnly(ee, lacking))} :
                  /\ Len(document'.sentences[k].entities) = Len(kept)
                  /\ \A m \in DOMAIN kept :
                       /\ FieldRecovered(kept[m], "id",
                                         document'.sentences[k].entities[m].id)
                       /\ FieldRecovered(kept[m], "origId",
                                         document'.sentences[k].entities[m].orig_id)
           /\ DistinctBy(HeldPlaceholders(document'), Self)
           /\ DistinctBy(synthesized', Self)
    ELSE (\E i \in DOMAIN SentenceElems :
            \E m \in DOMAIN EntityElemsOf(SentenceElems[i]) :
              \E k \in EntityRequired : ~Has(EntityElemsOf(SentenceElems[i])[m], Str(k)))
         => dpc' = "failed" /\ raised' = "FormatError"

\* C5 (as amended): an entity element that lacks id or origId and is
\* otherwise valid is, with recovery enabled, kept in its sentence, the
\* missing field holding a placeholder minted for it that differs from every
\* placeholder minted earlier in the process and from every other one in the
\* document; an entity lacking entity_type, charOffset or text is dropped.
\* With recovery disabled an entity lacking any required attribute makes
\* the assembly of the whole document fail.
C5_RecoveredAttributes ==
    [][dpc = "start" /\ dpc' # "start" => RecoveryStep(EntityRecovered)]_vars

\* C5 as stated: with recovery enabled an entity lacking any required
\* attribute is kept with a fresh placeholder.
C5_AnyRequiredAttribute ==
    [][dpc = "start" /\ dpc' # "start" => RecoveryStep(EntityRequired)]_vars

C5_Witness ==
    /\ dpc = "built"
    /\ options.recover
    /\ Len(HeldPlaceholders(document)) >= 2
    /\ Len(synthesized) > Len(HeldPlaceholders(document))

(***************************************************************************)
(* Entity.get_normalization on its own (SpecNorm).                         *)
(***************************************************************************)
NormTypes == {"ncbitax_id", "entrezgene_id", "cellline_acc", "cui", "foo"}

NormValues == {Str("0"), Str("NA"), Str("9606"), <<"CHEBI", ":", "123">>}

\* the confidence written next to each type, distinct per type
ConfValue(t) ==
    CASE t = "ncbitax_id" -> Str("1.0")
      [] t = "entrezgene_id" -> Str("0.5")
      [] t = "cellline_acc" -> Str("0.7")
      [] t = "cui" -> Str("0.9")
      [] t = "foo" -> Str("0.2")

PlainEntityAttrib == EntityElem(1, "plain").attrib

\* an <evex_entity> with norm_<t> = nv[t] for t in DOMAIN nv and
\* norm_<t>_conf for t in cf, next to its ordinary attributes
NormEntityElem(nv, cf) ==
    Elem("evex_entity",
         PlainEntityAttrib
           @@ [ k \in { <<"norm_", t>> : t \in DOMAIN nv } |-> nv[k[2]] ]
           @@ [ k \in { <<"norm_", t, "_conf">> : t \in cf } |-> ConfValue(k[2]) ],
         <<>>)

InitNorm ==
    /\ \E A \in SUBSET NormTypes, cf \in SUBSET NormTypes :
           /\ Cardinality(A) + Cardinality(cf) <= MaxNormAttrs
           /\ \E nv \in [A -> NormValues] : normElement = NormEntityElem(nv, cf)
    /\ normResult = None /\ normDone = FALSE
    /\ DocIdle /\ HeadIdle /\ StreamIdle /\ SinkIdle /\ OffsetIdle /\ LinesIdle

\* norm_id, norm_conf = Entity.get_normalization(element)
GetNormalization ==
    /\ ~normDone
    /\ \E order \in SetIterOrders(NormKeySet(normElement)) :
           normResult' = get_normalization(normElement, order)
    /\ normDone' = TRUE
    /\ UNCHANGED normElement
    /\ UNCHANGED <<docVars, headVars, streamVars, sinkVars, offsetVars, linesVars>>

NextNorm == GetNormalization

SpecNorm == InitNorm /\ [][NextNorm]_vars

NormAttr(t) == <<"norm_", t>>

ConfAttr(t) == <<"norm_", t, "_conf">>

\* the types given in both families whose value is not the empty sentinel
Survivors(el) ==
    { t \in NormTypes :
        /\ Has(el, NormAttr(t)) /\ Has(el, ConfAttr(t))
        /\ ~(t = "entrezgene_id" /\ el.attrib[NormAttr(t)] = Str("0"))
        /\ ~(t = "cui" /\ el.attrib[NormAttr(t)] = Str("NA")) }

\* the fixed prefix table
CuriePrefix(t) ==
    CASE t = "ncbitax_id" -> Str("NCBITaxon")
      [] t = "entrezgene_id" -> Str("ncbigene")
      [] t = "cellline_acc" -> Str("cellosaurus")
      [] t = "cui" -> Str("mesh")
      [] OTHER -> Str(t)

ExpectedCurie(t, v) ==
    IF t = "cui" /\ v[1] = "CHEBI" /\ Len(v) >= 2 /\ v[2] = ":" THEN v
    ELSE CuriePrefix(t) \o Str(":") \o v

ExpectedNorm(el, t) == <<ExpectedCurie(t, el.attrib[NormAttr(t)]), el.attrib[ConfAttr(t)]>>

\* C6: get_normalization returns for every attribute set; a type given in
\* only one family, or given with its empty sentinel (entrezgene_id 0, cui
\* NA), never supplies the result; with no surviving candidate the result is
\* (None, None); with exactly one it is that candidate's CURIE by the prefix
\* table (a cui starting with CHEBI: unchanged) and its paired confidence.
C6_Normalization ==
    normDone =>
        /\ Survivors(normElement) = {} => normResult = <<None, None>>
        /\ Survivors(normElement) # {} =>
               \E t \in Survivors(normElement) : normResult = ExpectedNorm(normElement, t)
        /\ \A t \in NormTypes :
               Survivors(normElement) = {t} => normResult = ExpectedNorm(normElement, t)

C6_Witness ==
    /\ normDone
    /\ Survivors(normElement) = {"cui"}
    /\ normResult = << <<"CHEBI", ":", "123">>, Str("0.9") >>
    /\ \E t \in NormTypes \ {"cui"} :
           Has(normElement, NormAttr(t)) /\ ~Has(normElement, ConfAttr(t))

(***************************************************************************)
(* Sentence.find_head on its own (SpecHead).                               *)
(***************************************************************************)
HeadOffsets == {OffsetStr(0, 4), OffsetStr(2, 6), OffsetStr(5, 7)}

\* headScore as written in the XML; <<>> stands for "no headScore attribute"
HeadScores == {<<>>, Str("3"), Str("9"), <<"1", "0">>}

HeadSpans == {<<2, 5>>, <<0, 2>>}

HeadTokenElem(i, off, hs) ==
    Elem("token",
         IF hs = <<>>
         THEN [TokenElem(i, "unscored").attrib EXCEPT ![Str("charOffset")] = off]
         ELSE [TokenElem(i, "scored").attrib EXCEPT ![Str("charOffset")] = off,
                                                     ![Str("headScore")] = hs],
         <<>>)

\* the tokens of a sentence as Sentence.from_xml parses them
InitHead ==
    /\ \E n \in 0..MaxHeadTokens :
         \E offs \in [1..n -> HeadOffsets], hss \in [1..n -> HeadScores] :
           headTokens = [ i \in 1..n |->
                            Token_from_xml(HeadTokenElem(i, offs[i], hss[i]),
                                           Options(FALSE, FALSE, FALSE),
                                           [cache |-> 0, log |-> <<>>]).val ]
    /\ headSpan \in HeadSpans
    /\ headResult = None /\ headDone = FALSE
    /\ DocIdle /\ NormIdle /\ StreamIdle /\ SinkIdle /\ OffsetIdle /\ LinesIdle

\* head = sentence.find_head(start, end)
FindHead ==
    /\ ~headDone
    /\ headResult' = find_head(headTokens, headSpan[1], headSpan[2])
    /\ headDone' = TRUE
    /\ UNCHANGED <<headTokens, headSpan>>
    /\ UNCHANGED <<docVars, normVars, streamVars, sinkVars, offsetVars, linesVars>>

NextHead == FindHead

SpecHead == InitHead /\ [][NextHead]_vars

\* the head score as a number: the headScore attribute read as an integer,
\* -99 when there is none
NumScore(t) == IF t.head_score.isstr THEN ToInt(t.head_score.s) ELSE t.head_score.n

Overlapping == { i \in DOMAIN headTokens :
                   headTokens[i].start < headSpan[2] /\ headTokens[i].end > headSpan[1] }

\* C7: when some token overlaps the span, find_head returns an overlapping
\* token whose head score is the numeric maximum over the overlapping tokens
\* (an absent score counting as -99, below every real score), and it is the
\* last such token in parse order.
C7_HeadIsNumericMaximum ==
    headDone /\ Overlapping # {} =>
        /\ headResult.exc = "none"
        /\ \E i \in Overlapping :
             /\ headResult.val = headTokens[i]
             /\ \A j \in Overlapping :
                  /\ NumScore(headTokens[j]) <= NumScore(headTokens[i])
                  /\ NumScore(headTokens[j]) = NumScore(headTokens[i]) => j <= i

(***************************************************************************)
(* process_stream over the end events of one input file (SpecStream).      *)
(***************************************************************************)
\* ET.iterparse yields an end event for every element, children first
RECURSIVE PostOrder(_)
PostOrder(el) ==
    LET RECURSIVE All(_)
        All(els) == IF els = <<>> THEN <<>> ELSE PostOrder(Head(els)) \o All(Tail(els))
    IN  All(el.children) \o << [event |-> "end", element |-> el] >>

Shape(sv, toks, ents, nd) == [sv |-> sv, toks |-> toks, ents |-> ents, np |-> 0, nd |-> nd]

StreamDocKinds == {"empty", "parsed", "noText", "noOrigId", "badSentence", "noEntityId"}

\* the n-th <document> of the file
StreamDoc(n, k) ==
    CASE k = "empty" -> DocumentElem(n, "ok", <<>>)
      [] k = "parsed" ->
           DocumentElem(n, "ok", << Shape("ok", <<"scored", "scored">>, <<>>, 1) >>)
      [] k = "noText" -> DocumentElem(n, "noText", <<>>)
      [] k = "noOrigId" -> DocumentElem(n, "noOrigId", <<>>)
      [] k = "badSentence" ->
           DocumentElem(n, "ok", << Shape("noText", <<>>, <<>>, 0) >>)
      [] k = "noEntityId" ->
           DocumentElem(n, "ok", << Shape("ok", <<>>, <<"noId">>, 0) >>)

StreamModes == {"default", "sentences", "no_tokens"}

StreamLimits == {None, <<1>>}

StreamIds == {None, << LocalId("PMID", 1) >>}

StreamOptions ==
    { [Options(rc, m = "no_tokens", FALSE) EXCEPT
          !.sentences = (m = "sentences"), !.no_output = no, !.limit = l, !.ids = ids] :
      rc \in BOOLEAN, m \in StreamModes, no \in BOOLEAN, l \in StreamLimits,
      ids \in StreamIds }

StreamWriters ==
    {FilesystemWriter_init(DEFAULT_OUT), SQLiteWriter_init(DEFAULT_OUT \o <<".sqlite">>)}

InitStream ==
    /\ \E n \in 0..MaxDocs : \E ks \in [1..n -> StreamDocKinds] :
         stream = PostOrder(Elem("corpus", <<>>, [ i \in 1..n |-> StreamDoc(i, ks[i]) ]))
    /\ options \in StreamOptions
    /\ writer \in StreamWriters
    /\ options.no_output => options.sentences = FALSE /\ ~options.no_tokens
                            /\ writer.kind = "fs"
    /\ pos = 0 /\ success = 0 /\ errorCount = 0 /\ spc = "running"
    /\ raisedIn = "none" /\ attempted = 0
    /\ document = None /\ raised = "none" /\ cache = 0 /\ synthesized = <<>>
    /\ element = None /\ dpc = "idle" /\ before = None /\ passes = 0
    /\ f = None /\ wpc = "idle" /\ scopeKey = None /\ written = <<>>
    /\ scopeExit = "none" /\ nscopes = 0
    /\ NormIdle /\ HeadIdle /\ OffsetIdle /\ LinesIdle

StreamRest == <<element, dpc, before, passes, f, wpc, scopeKey, written, scopeExit,
                nscopes, normVars, headVars, offsetVars, linesVars>>

LimitReached == options.limit # None /\ success >= options.limit[1]

IsDocumentEnd(item) == item.event = "end" /\ item.element.tag = "document"

\* doc_id = element.attrib.get('origId')
DocId(el) == IF Has(el, Str("origId")) THEN el.attrib[Str("origId")] ELSE None

Filtered(el) ==
    options.ids # None /\ ~\E i \in DOMAIN options.ids : options.ids[i] = DocId(el)

\* if options.limit is not None and success >= options.limit: break
LimitBreak ==
    /\ spc = "running" /\ pos < Len(stream)
    /\ LimitReached
    /\ spc' = "returned"
    /\ UNCHANGED <<stream, pos, success, errorCount, raisedIn, attempted, writer,
                   options, document, raised, cache, synthesized, StreamRest>>

\* an event that is not the end of a <document>: pass
OtherEvent ==
    /\ spc = "running" /\ pos < Len(stream)
    /\ ~LimitReached
    /\ ~IsDocumentEnd(stream[pos + 1])
    /\ pos' = pos + 1
    /\ UNCHANGED <<stream, success, errorCount, spc, raisedIn, attempted, writer,
                   options, document, raised, cache, synthesized, StreamRest>>

\* a <document> whose origId is not among options.ids: continue
FilteredDocument ==
    /\ spc = "running" /\ pos < Len(stream)
    /\ ~LimitReached
    /\ IsDocumentEnd(stream[pos + 1])
    /\ Filtered(stream[pos + 1].element)
    /\ pos' = pos + 1
    /\ UNCHANGED <<stream, success, errorCount, spc, raisedIn, attempted, writer,
                   options, document, raised, cache, synthesized, StreamRest>>

\* the try / except FormatError / else block and element.clear()
ProcessDocument ==
    /\ spc = "running" /\ pos < Len(stream)
    /\ ~LimitReached
    /\ IsDocumentEnd(stream[pos + 1])
    /\ ~Filtered(stream[pos + 1].element)
    /\ attempted' = attempted + 1
    /\ \E r \in {Document_from_xml(stream[pos + 1].element, options,
                                   [cache |-> cache, log |-> synthesized])} :
         /\ raised' = r.exc
         /\ cache' = r.g.cache
         /\ synthesized' = r.g.log
         /\ document' = r.val
         /\ \/ /\ r.exc = "FormatError"
               /\ errorCount' = errorCount + 1
               /\ pos' = pos + 1
               /\ stream' = [stream EXCEPT ![pos + 1].element = Elem("document", <<>>, <<>>)]
               /\ UNCHANGED <<success, spc, raisedIn, writer>>
            \/ /\ r.exc \notin {"none", "FormatError"}
               /\ spc' = "raised"
               /\ raisedIn' = "from_xml"
               /\ UNCHANGED <<stream, pos, success, errorCount, writer>>
            \/ /\ r.exc = "none"
               /\ options.no_output
               /\ success' = success + 1
               /\ pos' = pos + 1
               /\ stream' = [stream EXCEPT ![pos + 1].element = Elem("document", <<>>, <<>>)]
               /\ UNCHANGED <<errorCount, spc, raisedIn, writer>>
            \/ /\ r.exc = "none"
               /\ ~options.no_output
               /\ \E wr \in {write_document(writer, r.val, options)} :
                    /\ writer' = wr.w
                    /\ IF wr.exc = "none"
                       THEN /\ success' = success + 1
                            /\ pos' = pos + 1
                            /\ stream' = [stream EXCEPT ![pos + 1].element =
                                              Elem("document", <<>>, <<>>)]
                            /\ UNCHANGED <<spc, raisedIn>>
                       ELSE /\ spc' = "raised"
                            /\ raisedIn' = "write_document"
                            /\ UNCHANGED <<stream, pos, success>>
               /\ UNCHANGED errorCount
    /\ UNCHANGED <<options, StreamRest>>

\* the stream is exhausted: return success, error
StreamEnd ==
    /\ spc = "running" /\ pos = Len(stream)
    /\ spc' = "returned"
    /\ UNCHANGED <<stream, pos, success, errorCount, raisedIn, attempted, writer,
                   options, document, raised, cache, synthesized, StreamRest>>

NextStream == LimitBreak \/ OtherEvent \/ FilteredDocument \/ ProcessDocument \/ StreamEnd

SpecStream == InitStream /\ [][NextStream]_vars

DocumentEnds == { i \in DOMAIN stream : IsDocumentEnd(stream[i]) }

\* C3: no failure to assemble a document leaves process_stream as an
\* exception; when process_stream returns, success + error equals the number
\* of documents whose assembly was attempted, and (without a limit or an id
\* filter) every document of the stream was attempted.
C3_FailuresCountedNeverHalt ==
    /\ spc = "raised" => raisedIn # "from_xml"
    /\ spc = "returned" => success + errorCount = attempted
    /\ spc = "returned" /\ options.limit = None /\ options.ids = None =>
           attempted = Cardinality(DocumentEnds)

\* C10: with a limit L set, Document.from_xml is attempted for at most L
\* documents of the stream, failed assemblies counting like successful ones.
C10_LimitBoundsAttempts ==
    options.limit # None => attempted <= options.limit[1]

\* the key under which the writer keeps the document's .ann output
AnnKey(doc) ==
    IF writer.kind = "fs" THEN PathJoin(writer.base_dir, DocAnnFn(doc, options))
    ELSE DocAnnFn(doc, options)

\* one span line per token in parse order, then one relation line per
\* dependency naming the uids of its t1 and t2 tokens, sentence by sentence
RECURSIVE TokenAndDependencyLines(_)
TokenAndDependencyLines(sentences) ==
    IF sentences = <<>> THEN <<>>
    ELSE LET sn == Head(sentences)
         IN  [ i \in DOMAIN sn.tokens |->
                 UidStr(sn.tokens[i].uid) \o <<"\t">> \o sn.tokens[i].type \o <<" ">>
                 \o ToStr(sn.tokens[i].start + sn.start) \o <<" ">>
                 \o ToStr(sn.tokens[i].end + sn.start) \o <<"\t">>
                 \o sn.tokens[i].text \o <<"\n">> ]
             \o [ i \in DOMAIN sn.dependencies |->
                    UidStr(sn.dependencies[i].uid) \o <<"\t">> \o sn.dependencies[i].type
                    \o <<" ", "Arg1:">>
                    \o UidStr(sn.tokens[sn.token_by_id[sn.dependencies[i].start]].uid)
                    \o <<" ", "Arg2:">>
                    \o UidStr(sn.tokens[sn.token_by_id[sn.dependencies[i].end]].uid)
                    \o <<"\n">> ]
             \o TokenAndDependencyLines(Tail(sentences))

HasRelationLine(content) == \E i \in DOMAIN content : content[i] = "Arg1:"

\* C8: once a document assembled with tokens (and without entities) has been
\* handed to write_document, its .ann output holds one span line per token in
\* parse order and one relation line per dependency, Arg1 and Arg2 being the
\* uids of the tokens the dependency names; a document assembled without
\* tokens has no dependency and its output no relation line.
C8_TokenAndDependencyLines ==
    /\ ( /\ document # None /\ ~options.no_output /\ ~options.sentences
         /\ ~options.no_tokens /\ ~options.no_deps
         /\ \A i \in DOMAIN document.sentences : document.sentences[i].entities = <<>> )
       => /\ AnnKey(document) \in DOMAIN writer.store
          /\ writer.store[AnnKey(document)] =
                 JoinStr(TokenAndDependencyLines(document.sentences))
    /\ document # None /\ options.no_tokens =>
          /\ \A i \in DOMAIN document.sentences :
                 document.sentences[i].dependencies = <<>>
          /\ \A k \in DOMAIN writer.store : ~HasRelationLine(writer.store[k])

(***************************************************************************)
(* The with-blocks of a writer, one step at a time (SpecSink): open up to  *)
(* the yield, the writes of the body, and the way the body is left.        *)
(***************************************************************************)
SinkPaths == { <<"PMID", "1", ".txt">>, <<"PMID", "1", ".ann">>,
               <<"PMID", "/", "PMID", "1", ".0", ".ann">> }

SinkData == { <<"a", "b", "\n">>, <<"T1", "\t", "Token", "\n">> }

InitSink ==
    /\ writer \in StreamWriters
    /\ f = None /\ wpc = "idle" /\ scopeKey = None /\ written = <<>>
    /\ scopeExit = "none" /\ nscopes = 0
    /\ DocIdle /\ NormIdle /\ HeadIdle /\ StreamIdle /\ OffsetIdle /\ LinesIdle

SinkRest == <<docVars, normVars, headVars, streamVars, offsetVars, linesVars>>

\* with writer.open(path) as out: -- open() runs up to its yield
OpenScope ==
    /\ wpc \in {"idle", "left"} /\ nscopes < MaxScopes
    /\ \E path \in SinkPaths : \E o \in {Writer_open(writer, path)} :
         /\ writer' = o.w
         /\ f' = o.f
         /\ scopeKey' = o.f.key
    /\ wpc' = "body" /\ written' = <<>> /\ scopeExit' = "none"
    /\ nscopes' = nscopes + 1
    /\ UNCHANGED SinkRest

\* out.write(data) in the body
BodyWrite ==
    /\ wpc = "body" /\ Len(written) < MaxWrites
    /\ \E data \in SinkData :
         /\ f' = File_write(f, data)
         /\ written' = Append(written, data)
    /\ UNCHANGED <<writer, wpc, scopeKey, scopeExit, nscopes, SinkRest>>

\* the body ends: open() resumes after the yield
BodyReturns ==
    /\ wpc = "body"
    /\ \E x \in {Writer_exit(writer, f, "none")} : writer' = x.w /\ f' = x.f
    /\ wpc' = "left" /\ scopeExit' = "normal"
    /\ UNCHANGED <<scopeKey, written, nscopes, SinkRest>>

\* the body raises (as write_annotations does on its first to_ann): the
\* exception is thrown into open() at the yield
BodyRaises ==
    /\ wpc = "body"
    /\ \E x \in {Writer_exit(writer, f, "AttributeError")} : writer' = x.w /\ f' = x.f
    /\ wpc' = "left" /\ scopeExit' = "exception"
    /\ UNCHANGED <<scopeKey, written, nscopes, SinkRest>>

NextSink == OpenScope \/ BodyWrite \/ BodyReturns \/ BodyRaises

SpecSink == InitSink /\ [][NextSink]_vars

\* C9: however a with-block on writer.open is left, normally or by an
\* exception, its stream is closed and the sink holds under the stream's key
\* exactly what the body wrote before it was left.
C9_ReleasedOnEveryExit ==
    wpc = "left" =>
        /\ f.closed
        /\ scopeKey \in DOMAIN writer.store
        /\ writer.store[scopeKey] = JoinStr(written)

C9_Witness ==
    /\ wpc = "left" /\ scopeExit = "exception"
    /\ Len(written) = 1
    /\ f.closed
    /\ writer.store[scopeKey] = written[1]

(***************************************************************************)
(* Span.__init__ on one offset string, and Document.from_xml on documents  *)
(* whose sentences, tokens, phrases and entities may carry a reversed      *)
(* offset (SpecOffsets).                                                   *)
(***************************************************************************)
OffsetTokens == {"0", "1", "-", "+", " ", "_", "x"}

OffsetStrings == UNION { [1..n -> OffsetTokens] : n \in 1..MaxOffsetLen }

OffsetShapes ==
    DocShapes({"ok", "badOffset", "badPhrase"}, {"scored", "badOffset"},
              {"plain", "badOffset"}, MaxSize)

OffsetOptions == { Options(rc, FALSE, ph) : rc \in BOOLEAN, ph \in BOOLEAN }

InitOffsets ==
    \/ /\ offsetArg \in OffsetStrings
       /\ offsetResult = None /\ offsetDone = FALSE
       /\ DocIdle /\ NormIdle /\ HeadIdle /\ StreamIdle /\ SinkIdle /\ LinesIdle
    \/ InitDoc(OffsetShapes, OffsetOptions, {0})

\* Span.__init__(offset), as far as start and end
ParseSpan ==
    /\ offsetArg # None /\ ~offsetDone
    /\ offsetResult' = ParseOffset(offsetArg)
    /\ offsetDone' = TRUE
    /\ UNCHANGED <<offsetArg, docVars, normVars, headVars, streamVars, sinkVars,
                   linesVars>>

NextOffsets == ParseSpan \/ FromXml \/ AssignUids

SpecOffsets == InitOffsets /\ [][NextOffsets]_vars

\* a non-empty run of decimal digits, and the number it writes
Numeral(s) == s # <<>> /\ \A i \in DOMAIN s : IsDigit(s[i])

RECURSIVE NumeralValue(_, _)
NumeralValue(s, acc) ==
    IF s = <<>> THEN acc ELSE NumeralValue(Tail(s), 10 * acc + DigitVal(Head(s)))

\* s writes an integer the way int() reads one: whitespace, an optional
\* sign, digits possibly separated by single underscores, whitespace
WritesInteger(s) ==
    \E a, b \in DOMAIN s :
        /\ a <= b /\ IsDigit(s[a]) /\ IsDigit(s[b])
        /\ \A i \in 1..(a - 1) : s[i] = " " \/ (i = a - 1 /\ s[i] \in {"+", "-"})
        /\ \A i \in (b + 1)..Len(s) : s[i] = " "
        /\ \A i \in a..b : IsDigit(s[i]) \/ (s[i] = "_" /\ IsDigit(s[i - 1]) /\ IsDigit(s[i + 1]))

Before(s, k) == SubSeq(s, 1, k - 1)

After(s, k) == SubSeq(s, k + 1, Len(s))

Ordered(x) == 0 <= x.start /\ x.start <= x.end

\* C11: an offset "a-b" of two numerals parses to (a, b) when a <= b and
\* fails when a > b; parsing fails unless the string is two integers joined
\* by one "-"; and every sentence, token, phrase and entity of an assembled
\* Document has 0 <= start <= end, with and without recovery.
C11_OffsetsOrdered ==
    /\ offsetDone =>
         /\ \A k \in DOMAIN offsetArg :
              offsetArg[k] = "-" /\ Numeral(Before(offsetArg, k))
                                 /\ Numeral(After(offsetArg, k)) =>
                  LET a == NumeralValue(Before(offsetArg, k), 0)
                      b == NumeralValue(After(offsetArg, k), 0)
                  IN  IF a <= b
                      THEN offsetResult = [exc |-> "none", start |-> a, end |-> b]
                      ELSE offsetResult.exc # "none"
         /\ offsetResult.exc = "none" =>
              /\ \E k \in DOMAIN offsetArg :
                   /\ offsetArg[k] = "-"
                   /\ WritesInteger(Before(offsetArg, k))
                   /\ WritesInteger(After(offsetArg, k))
              /\ Ordered(offsetResult)
    /\ dpc = "built" =>
         \A i \in DOMAIN document.sentences :
            LET sn == document.sentences[i]
            IN  /\ Ordered(sn)
                /\ \A j \in DOMAIN sn.tokens : Ordered(sn.tokens[j])
                /\ \A j \in DOMAIN sn.phrases : Ordered(sn.phrases[j])
                /\ \A j \in DOMAIN sn.entities : Ordered(sn.entities[j])

Reversed(el) ==
    Has(el, Str("charOffset")) /\ ParseOffset(el.attrib[Str("charOffset")]).exc = "AssertionError"

\* under recovery a document is assembled from an input holding an entity
\* with a reversed offset, and keeps another entity of the same sentence
C11_Witness ==
    /\ dpc = "built" /\ options.recover
    /\ \E i \in DOMAIN SentenceElems :
         \E j \in DOMAIN EntityElemsOf(SentenceElems[i]) :
             Reversed(EntityElemsOf(SentenceElems[i])[j])
    /\ \E i \in DOMAIN document.sentences : document.sentences[i].entities # <<>>

(***************************************************************************)
(* Entity.to_ann_lines on the entities of an assembled Document            *)
(* (SpecEntity).                                                           *)
(***************************************************************************)
EntityShapes == DocShapes({"ok"}, {"scored"}, {"plain", "norm", "sentinel"}, MaxSize)

EntityOptions == { Options(FALSE, nt, FALSE) : nt \in BOOLEAN }

InitEntity == InitDoc(EntityShapes, EntityOptions, {0})

BaseOffsets == {0, 1}

\* list(e.to_ann_lines(base_offset)) for every entity of the Document
EntityLines ==
    /\ dpc = "built" /\ entityLines = <<>>
    /\ \E base_offset \in BaseOffsets :
         entityLines' =
             [ k \in DOMAIN VisitedEntities(document) |->
                 [entity |-> VisitedEntities(document)[k],
                  lines |-> Entity_to_ann_lines(VisitedEntities(document)[k],
                                                base_offset)] ]
    /\ UNCHANGED <<docVars, normVars, headVars, streamVars, sinkVars, offsetVars>>

NextEntity == FromXml \/ AssignUids \/ EntityLines

SpecEntity == InitEntity /\ [][NextEntity]_vars

IsReferenceLine(line) == \E i \in DOMAIN line : line[i] = "Reference"

\* C12: every entity of an assembled Document has a norm_uid exactly when it
\* has a norm_id, and its annotation lines are its span line followed by a
\* Reference line exactly when it has a norm_id.
C12_NormUidIffNormId ==
    /\ dpc = "built" =>
         \A k \in DOMAIN VisitedEntities(document) :
            (VisitedEntities(document)[k].norm_uid # None)
                <=> (VisitedEntities(document)[k].norm_id # None)
    /\ \A k \in DOMAIN entityLines :
         LET e == entityLines[k].entity
             lines == entityLines[k].lines
         IN  /\ Len(lines) \in {1, 2}
             /\ ~IsReferenceLine(lines[1])
             /\ Len(lines) = 2 <=> e.norm_id # None
             /\ Len(lines) = 2 =>
                  /\ IsReferenceLine(lines[2])
                  /\ SubSeq(lines[2], 1, Len(UidStr(e.norm_uid))) = UidStr(e.norm_uid)

\* a Document with a normalized entity, an entity without normalization
\* attributes and an entity whose only normalization is the empty sentinel
C12_Witness ==
    /\ dpc = "built"
    /\ \E i, j \in DOMAIN entityLines :
         /\ Len(entityLines[i].lines) = 2
         /\ Len(entityLines[j].lines) = 1
    /\ \E i \in DOMAIN SentenceElems :
         \E j \in DOMAIN EntityElemsOf(SentenceElems[i]) :
             /\ Has(EntityElemsOf(SentenceElems[i])[j], <<"norm_", "cui">>)
             /\ EntityElemsOf(SentenceElems[i])[j].attrib[<<"norm_", "cui">>] = Str("NA")

====
